---- MODULE Spec2Model ----
(***************************************************************************)
(* A model of scripts/url-scooop.py: batch_download, the sequential        *)
(* download engine of the URL Scooop extension.  One request is processed  *)
(* at a time; each attempt of the retry loop runs the URL-derived          *)
(* existing-file check, the HEAD probe, the streamed GET, the write to     *)
(* '<out_path>.tmp', the rename and the finally-cleanup.  The network, the *)
(* file system and the free-space query are an environment whose outcomes  *)
(* are chosen nondeterministically at each call.                           *)
(***************************************************************************)
EXTENDS Integers, Sequences, FiniteSets, TLC

VARIABLES
    \* the lines entered, before read_urls converts them
    original_urls,
    \* inputs of batch_download
    urls, dest_dir, skip_existing, retry_count, delay_between_requests,
    \* the destination volume: path -> [size, done, by]
    fs,
    \* the kind of servers behind the URLs
    remote,
    \* locals of batch_download
    pc, idx, attempt, success, brk, fname, out_path, expected_size,
    success_count, skip_count, error_count, total_downloaded_size,
    current_error_log, error_details, result,
    \* what the run did, kept for the properties: the run number and the
    \* report of the first run, the failures the environment caused, the backoff
    \* sleeps of the request, the last pause between requests, the GET and
    \* HEAD requests of the request, whether the attempt opened its temporary
    \* file, whether its response declared more than the known free space,
    \* the path its skip was decided at, the requests attempted, the paths
    \* files were renamed to
    run, first, faults, sleeps, paused, fetches, probes, opened, tight,
    skip_path, attempted, placed,
    \* the directories os.makedirs was called for
    made_dirs

vars == <<original_urls, urls, dest_dir, skip_existing, retry_count, delay_between_requests,
          fs, remote, pc, idx, attempt, success, brk, fname, out_path, expected_size,
          success_count, skip_count, error_count,
          total_downloaded_size, current_error_log, error_details, result,
          run, first, faults, sleeps, paused, fetches, probes, opened, tight,
          skip_path, attempted, placed, made_dirs>>

-----------------------------------------------------------------------------
(* Bounds of the model.                                                    *)

\* longest batch
MaxUrls == 2
\* longest line entered, in pieces of text
MaxText == 6
\* largest retry_count
MaxRetry == 2
\* largest delay_between_requests, in slider steps of half a second
MaxDelay == 1
\* largest response body, in chunks
MaxBody == 1
\* most failures the environment causes in one behaviour: exceptions raised
\* and requests refused for lack of space
MaxFaults == 2

-----------------------------------------------------------------------------
(* Values.                                                                 *)

None == "None"

\* A URL is its '/'-separated segments before the '?' and its query string.
Url(last, query) == [segs |-> <<"https:", "", "h", last>>, query |-> query]

URLS == { Url("a.bin", "v=1"), Url("a.bin.tmp", ""), Url("", "") }

\* url.split('?')[0]: the text before the query.
SplitQuery(url) == url.segs

\* os.path.basename: the text after the last '/'.
Basename(segs) == segs[Len(segs)]

\* The names of the model that are absolute paths.
AbsoluteNames == {"/a.bin"}

\* os.path.join(dest_dir, fname): an absolute fname replaces dest_dir.
Join(dir, name) == IF name \in AbsoluteNames THEN name ELSE dir \o "/" \o name

\* os.path.dirname on the paths of the model: the text before the last '/'
\* ("/" for a file of the root directory).
Dirname(path) ==
    CASE path \in {"/a.bin", "/a.bin.tmp"} -> "/"
      [] path \in {"d/../a.bin", "d/../a.bin.tmp"} -> "d/.."
      [] OTHER -> "d"

\* requests.utils.unquote on the percent-encoded names of the model.
Unquote(s) == CASE s = "a%2Ebin%2Etmp" -> "a.bin.tmp"
                [] OTHER -> s

\* A content-disposition header: whether the header text is non-empty, the
\* value of its filename*=...'' parameter (still percent-encoded) and of its
\* filename= parameter, "" where it has none.
NoCd == [present |-> FALSE, star |-> "", plain |-> ""]
CdHeaders == { NoCd,
               [present |-> TRUE, star |-> "", plain |-> "a.bin"],
               [present |-> TRUE, star |-> "a%2Ebin%2Etmp", plain |-> "a.bin"] }

get_filename_from_cd(cd_header) ==
    IF ~cd_header.present THEN None
    ELSE IF cd_header.star # "" THEN Unquote(cd_header.star)
    ELSE IF cd_header.plain # "" THEN cd_header.plain
    ELSE None

\* The headers of a response of session.get that passed raise_for_status:
\* its content-disposition header and the text of its content-length header
\* (None: the header is absent; "x": text that is no number).  The body is
\* streamed: it ends when the connection delivers no further chunk, after at
\* most MaxBody chunks.
Responses == [cd : CdHeaders,
              content_length : {None, "x", ToString(MaxBody)}]

\* expected_size when it is None, and the outcome of int() raising
\* ValueError.
LengthAbsent == -1
LengthMalformed == -2

\* int() on the decimal numerals of the sizes of the model.
Numerals == { ToString(n) : n \in 0 .. MaxBody + 1 }
IntOf == [t \in Numerals |-> CHOOSE n \in 0 .. MaxBody + 1 : ToString(n) = t]

\* int(text)
ParseInt(text) == IF text \in Numerals THEN IntOf[text] ELSE LengthMalformed

\* What the server of a URL can do: the content-disposition headers its
\* HEAD answers 200 with, whether its HEAD can fail, the responses its GET
\* can give, and the lengths its body can have when the stream ends without
\* an exception.
Server(heads, head_fails, gets, bodies) ==
    [heads |-> heads, head_fails |-> head_fails, gets |-> gets, bodies |-> bodies]

\* Servers that may answer each request differently.
AnyServer == Server(CdHeaders, TRUE, Responses, 0 .. MaxBody)

\* Servers that answer every request the same way.  Bare: HEAD is refused,
\* the GET names no file and declares its length.  Naming: HEAD and GET
\* name the file a.bin and declare no length.  Hollow: as Bare, with an
\* empty body and no declared length.
Bare ==
    Server({}, TRUE, {[cd |-> NoCd, content_length |-> ToString(MaxBody)]},
           {MaxBody})
Naming ==
    Server({[present |-> TRUE, star |-> "", plain |-> "a.bin"]}, FALSE,
           {[cd |-> [present |-> TRUE, star |-> "", plain |-> "a.bin"],
             content_length |-> None]},
           {MaxBody})
Hollow == Server({}, TRUE, {[cd |-> NoCd, content_length |-> None]}, {0})

\* Content-disposition headers whose filename="..." holds a path: one with
\* a parent-directory segment, one absolute.
StrayCd == [present |-> TRUE, star |-> "", plain |-> "../a.bin"]
RootCd == [present |-> TRUE, star |-> "", plain |-> "/a.bin"]

\* Servers that name their file by a path.
Stray ==
    Server({StrayCd}, TRUE,
           {[cd |-> StrayCd, content_length |-> None],
            [cd |-> RootCd, content_length |-> ToString(MaxBody)]},
           0 .. MaxBody)

\* Probing: HEAD names the file a.bin and the GET names none.  Renaming:
\* HEAD names the file a.bin and the GET names it a.bin.tmp.
Probing ==
    Server({[present |-> TRUE, star |-> "", plain |-> "a.bin"]}, FALSE,
           {[cd |-> NoCd, content_length |-> None]},
           {MaxBody})
Renaming ==
    Server({[present |-> TRUE, star |-> "", plain |-> "a.bin"]}, FALSE,
           {[cd |-> [present |-> TRUE, star |-> "a%2Ebin%2Etmp", plain |-> "a.bin"],
             content_length |-> ToString(MaxBody)]},
           {MaxBody})

\* The servers of each kind.
Servers == [any |-> AnyServer, bare |-> Bare, naming |-> Naming, hollow |-> Hollow,
            stray |-> Stray, probing |-> Probing, renaming |-> Renaming]

-----------------------------------------------------------------------------
(* The file system of the destination volume.                              *)

\* A file: its size in chunks, whether its writer finished (done) and the
\* request that wrote it (0: it was there before the run).
File(size, done, by) == [size |-> size, done |-> done, by |-> by]

\* os.path.exists
Exists(path) == path \in DOMAIN fs

\* os.path.getsize
GetSize(path) == fs[path].size

\* open(path, 'wb'): creates or truncates the file.
Truncated(path, by) == (path :> File(0, FALSE, by)) @@ fs

\* f.write(chunk)
Written(path) == [fs EXCEPT ![path].size = @ + 1]

\* os.remove
Removed(path) == [p \in DOMAIN fs \ {path} |-> fs[p]]

\* os.rename(src, dst) on an existing src: dst is replaced.  The with-block
\* has closed the file, so its writer is finished.
Renamed(src, dst) ==
    [p \in (DOMAIN fs \ {src}) \cup {dst} |->
        IF p = dst THEN [fs[src] EXCEPT !.done = TRUE] ELSE fs[p]]

\* The destination directories a run starts from.
InitialFs == { <<>>,
               Join("d", "a.bin") :> File(0, TRUE, 0),
               Join("d", "a.bin") :> File(MaxBody, TRUE, 0) }

-----------------------------------------------------------------------------
(* Exceptions and the except clauses of the attempt, lines 253-289.        *)

\* An exception: its class and str(e).
Exc(type, msg) == [type |-> type, msg |-> msg]

\* The classes an exception of the given class is an instance of.
Bases(type) ==
    CASE type = "ReadTimeout" ->
           {"ReadTimeout", "Timeout", "RequestException", "OSError", "Exception"}
      [] type = "ConnectTimeout" ->
           {"ConnectTimeout", "ConnectionError", "Timeout", "RequestException",
            "OSError", "Exception"}
      [] type = "ConnectionError" ->
           {"ConnectionError", "RequestException", "OSError", "Exception"}
      [] type = "HTTPError" ->
           {"HTTPError", "RequestException", "OSError", "Exception"}
      [] type = "ChunkedEncodingError" ->
           {"ChunkedEncodingError", "RequestException", "OSError", "Exception"}
      [] type = "FileNotFoundError" ->
           {"FileNotFoundError", "OSError", "Exception"}
      [] type = "PermissionError" ->
           {"PermissionError", "OSError", "Exception"}
      [] type = "OSError" -> {"OSError", "Exception"}
      [] type = "ValueError" -> {"ValueError", "Exception"}

\* The except clauses in the order the try statement lists them.
ExceptClauses == << "Timeout", "ConnectionError", "HTTPError", "RequestException",
                    "FileNotFoundError", "PermissionError", "OSError", "Exception" >>

\* The clause that catches an exception: the first one it is an instance of.
Clause(e) ==
    LET i == CHOOSE i \in 1 .. Len(ExceptClauses) :
                /\ ExceptClauses[i] \in Bases(e.type)
                /\ \A j \in 1 .. i - 1 : ExceptClauses[j] \notin Bases(e.type)
    IN  ExceptClauses[i]

ENOSPC == "No space left on device"

\* What each raising call of the attempt can raise.
GetExceptions == { Exc("ReadTimeout", "t"), Exc("ConnectTimeout", "t"),
                   Exc("ConnectionError", "c"), Exc("HTTPError", "404") }
OpenExceptions == { Exc("FileNotFoundError", "f"), Exc("PermissionError", "p") }
WriteExceptions == { Exc("ChunkedEncodingError", "r"), Exc("OSError", ENOSPC) }
RenameExceptions == { Exc("OSError", "io") }

-----------------------------------------------------------------------------
(* batch_download.                                                         *)

\* 2 ** n
RECURSIVE Pow2(_)
Pow2(n) == IF n = 0 THEN 1 ELSE 2 * Pow2(n - 1)

\* (mutant) the exponent is the attempt number: 2 ** attempt.
WaitTimeFromAttempt(att) == delay_between_requests * Pow2(att)

\* Line 147: the backoff before the attempt numbered att (counted from 0),
\* in half seconds.
WaitTime(att) == delay_between_requests * Pow2(att - 1)

\* The batches of at most MaxUrls URLs.
Batches == UNION { [1 .. n -> URLS] : n \in 0 .. MaxUrls }

inputs == <<original_urls, urls, dest_dir, skip_existing, retry_count,
            delay_between_requests, remote>>
counts == <<success_count, skip_count, error_count, total_downloaded_size>>
locals == <<attempt, success, brk, fname, out_path, expected_size,
            current_error_log>>
seen   == <<sleeps, paused, fetches, probes, opened, tight, skip_path,
            attempted, placed>>

\* The state a run starts in.
Fresh ==
    /\ pc = "begin"
    /\ idx = 0
    /\ attempt = 0
    /\ success = FALSE
    /\ brk = FALSE
    /\ fname = None
    /\ out_path = None
    /\ expected_size = LengthAbsent
    /\ success_count = 0
    /\ skip_count = 0
    /\ error_count = 0
    /\ total_downloaded_size = 0
    /\ current_error_log = <<>>
    /\ error_details = <<>>
    /\ result = None
    /\ faults = 0
    /\ sleeps = <<>>
    /\ paused = 0
    /\ fetches = 0
    /\ probes = 0
    /\ opened = FALSE
    /\ tight = FALSE
    /\ skip_path = None
    /\ attempted = {}
    /\ placed = {}
    /\ made_dirs = {}

Init ==
    /\ urls \in Batches
    /\ original_urls = urls
    /\ dest_dir \in {"", "d"}
    /\ skip_existing \in BOOLEAN
    /\ retry_count \in 0 .. MaxRetry
    /\ delay_between_requests \in 1 .. MaxDelay
    /\ fs \in InitialFs
    /\ remote = "any"
    /\ run = 1
    /\ first = None
    /\ Fresh

\* (mutant) os.makedirs is called ahead of the check of the URL list.
PreconditionsMetNoUrlCheck == dest_dir # ""

\* Lines 98-101: neither pre-condition return is taken.
PreconditionsMet == Len(urls) > 0 /\ dest_dir # ""

\* Lines 83-143: the two pre-condition returns, makedirs, the counters and
\* the head of the loop for the first URL.
Begin ==
    /\ pc = "begin"
    /\ made_dirs' = IF PreconditionsMet THEN {dest_dir} ELSE {}
    /\ IF Len(urls) = 0
         THEN /\ result' = "no_urls"
              /\ pc' = "done"
              /\ idx' = idx
         ELSE IF dest_dir = ""
         THEN /\ result' = "no_dest"
              /\ pc' = "done"
              /\ idx' = idx
         ELSE /\ result' = result
              /\ pc' = "attempt"
              /\ idx' = 1
    /\ UNCHANGED <<inputs, fs, locals, counts, error_details, run, first,
                   faults, seen>>

\* (mutant) the existing-file checks do not look at the size.
ShouldSkipAnySize(path) == skip_existing /\ Exists(path)

\* Lines 157-160, 177-179, 204-206: an existing file that is not empty.
ShouldSkip(path) == skip_existing /\ Exists(path) /\ GetSize(path) > 0

\* The try body is left for the finally block.  expected_size is not read
\* again before line 217 assigns it: it is dropped.
LeaveTry ==
    /\ pc' = "finally"
    /\ expected_size' = LengthAbsent

\* A skip: lines 161-163, 180-182, 207-210.
Skip(path) ==
    /\ skip_path' = path
    /\ skip_count' = skip_count + 1
    /\ success' = TRUE
    /\ brk' = TRUE
    /\ LeaveTry
    /\ UNCHANGED <<success_count, error_count, total_downloaded_size>>

\* (mutant) only the FileNotFoundError clause ends with break.
BreaksOnMissingDirOnly(e) == Clause(e) = "FileNotFoundError"

\* Whether the clause that catches e leaves the retry loop (break).
Breaks(e) ==
    \/ Clause(e) \in {"FileNotFoundError", "PermissionError"}
    \/ Clause(e) = "OSError" /\ e.msg = ENOSPC

\* (mutant) every caught exception counts the request as an error.
CountedEachTime(e) == TRUE

\* Whether the clause that catches e counts the request as an error.
Counted(e) == Breaks(e) \/ attempt = retry_count

\* The line the clause that catches e appends to current_error_log; path
\* is out_path when e is raised.
ErrorLine(e, path) ==
    CASE Clause(e) = "FileNotFoundError" ->
           [tag |-> "FileNotFoundError", path |-> dest_dir]
      [] Clause(e) = "PermissionError" ->
           [tag |-> "PermissionError", path |-> path]
      [] Clause(e) = "OSError" /\ e.msg = ENOSPC ->
           [tag |-> "NoSpace"]
      [] OTHER ->
           [tag |-> Clause(e), try |-> attempt + 1]

\* Lines 253-289: an exception raised inside the try is caught by its clause.
Raise(e, path) ==
    /\ faults < MaxFaults
    /\ faults' = faults + 1
    /\ current_error_log' = Append(current_error_log, ErrorLine(e, path))
    /\ error_count' = IF Counted(e) THEN error_count + 1 ELSE error_count
    /\ brk' = Breaks(e)
    /\ LeaveTry
    /\ UNCHANGED <<success_count, skip_count, total_downloaded_size, success>>

\* Line 153: the name the URL gives, or file_<idx>.
UrlName(url, i) ==
    IF Basename(SplitQuery(url)) # "" THEN Basename(SplitQuery(url))
    ELSE "file_" \o ToString(i)

\* Lines 146-148: the retry line of the log.
RetryLine == [tag |-> "retry", attempt |-> attempt, wait |-> WaitTime(attempt)]

\* Lines 145-163: the head of the retry loop with the backoff sleep, the
\* URL-derived name and the first existing-file check.
StartAttempt ==
    /\ pc = "attempt"
    /\ idx \in 1 .. Len(urls)
    /\ sleeps' = IF attempt > 0 THEN Append(sleeps, WaitTime(attempt)) ELSE sleeps
    /\ current_error_log' = IF attempt > 0 THEN Append(current_error_log, RetryLine)
                            ELSE current_error_log
    /\ opened' = FALSE
    /\ tight' = FALSE
    /\ attempted' = attempted \cup {idx}
    /\ fname' = UrlName(urls[idx], idx)
    /\ out_path' = Join(dest_dir, fname')
    /\ IF ShouldSkip(out_path')
         THEN Skip(out_path')
         ELSE /\ pc' = "head"
              /\ skip_path' = None
              /\ UNCHANGED <<counts, success, brk, expected_size>>
    /\ UNCHANGED <<inputs, fs, idx, attempt, error_details, result, made_dirs, run, first,
                   faults, paused, fetches, probes, placed>>

\* Lines 166-185: the HEAD probe fails (an exception, or a status other
\* than 200); the failure is swallowed.
ProbeFails ==
    /\ pc = "head"
    /\ Servers[remote].head_fails
    /\ probes' = probes + 1
    /\ pc' = "get"
    /\ UNCHANGED <<inputs, fs, idx, locals, counts, error_details, result, made_dirs, run,
                   first, faults, sleeps, paused, fetches, opened, tight,
                   skip_path, attempted, placed>>

\* Lines 166-182: the HEAD probe answers 200 with the header cd.
ProbeAnswers ==
    /\ pc = "head"
    /\ probes' = probes + 1
    /\ \E cd \in Servers[remote].heads :
         IF get_filename_from_cd(cd) # None
           THEN /\ fname' = get_filename_from_cd(cd)
                /\ out_path' = Join(dest_dir, fname')
                /\ IF ShouldSkip(out_path')
                     THEN Skip(out_path')
                     ELSE /\ pc' = "get"
                          /\ UNCHANGED <<counts, success, brk, expected_size, skip_path>>
           ELSE /\ pc' = "get"
                /\ UNCHANGED <<fname, out_path, counts, success, brk, expected_size,
                               skip_path>>
    /\ UNCHANGED <<inputs, fs, idx, attempt, current_error_log, error_details,
                   result, made_dirs, run, first, faults, sleeps, paused, fetches, opened,
                   tight, attempted, placed>>

\* Lines 188-196: session.get or raise_for_status raises.
FetchRaises ==
    /\ pc = "get"
    /\ fetches' = fetches + 1
    /\ \E e \in GetExceptions : Raise(e, out_path)
    /\ UNCHANGED <<inputs, fs, idx, attempt, fname, out_path, error_details,
                   result, made_dirs, run, first, sleeps, paused, probes, opened, tight,
                   skip_path, attempted, placed>>

\* (mutant) the header of the GET response is not looked at.
FinalNameKept(r, name) == name

\* Line 200: the name of the response's header, or the name held so far.
FinalName(r, name) ==
    IF get_filename_from_cd(r.cd) # None THEN get_filename_from_cd(r.cd) ELSE name

\* Line 217: int(content_length) if content_length else None.
ExpectedSize(r) ==
    IF r.content_length = None THEN LengthAbsent ELSE ParseInt(r.content_length)

\* os.statvfs(dest_dir): the free space in chunks, or -1 when the call
\* raises (OSError, or AttributeError where there is no statvfs).
DiskFree == -1 .. MaxBody

\* (mutant) the free-space check is missing.
NoRoomNever(size, disk_free) == FALSE

\* Lines 220-223: the declared size is known to exceed the free space.
NoRoom(size, disk_free) == size > 0 /\ disk_free >= 0 /\ size > disk_free

\* Lines 203-206: the third existing-file check, at the final name.
SkipsAtFinal(r) ==
    /\ Join(dest_dir, FinalName(r, fname)) # out_path
    /\ ShouldSkip(Join(dest_dir, FinalName(r, fname)))

\* The response declares more than the free space of the volume, as
\* statvfs reports it (-1: it reports nothing).
Tight(r, disk_free) ==
    ExpectedSize(r) > 0 /\ disk_free >= 0 /\ disk_free < ExpectedSize(r)

\* Lines 195-229, the exits before the download: the response arrives and
\* the request is skipped at its final name, or int() raises on the
\* content-length, or the declared size exceeds the free space (a failure
\* the environment causes, like an exception).
FetchStops ==
    /\ pc = "get"
    /\ fetches' = fetches + 1
    /\ \E r \in Servers[remote].gets, disk_free \in DiskFree :
         /\ tight' = Tight(r, disk_free)
         /\ IF SkipsAtFinal(r)
              THEN /\ Skip(Join(dest_dir, FinalName(r, fname)))
                   /\ UNCHANGED <<fname, out_path, faults, current_error_log>>
              ELSE /\ fname' = FinalName(r, fname)
                   /\ out_path' = Join(dest_dir, fname')
                   /\ skip_path' = skip_path
                   /\ IF ExpectedSize(r) = LengthMalformed
                        THEN Raise(Exc("ValueError", "v"), out_path')
                        ELSE /\ NoRoom(ExpectedSize(r), disk_free)
                             /\ faults < MaxFaults
                             /\ faults' = faults + 1
                             /\ current_error_log' =
                                  Append(current_error_log, [tag |-> "NoSpaceAhead"])
                             /\ error_count' = error_count + 1
                             /\ brk' = TRUE
                             /\ LeaveTry
                             /\ UNCHANGED <<success_count, skip_count,
                                            total_downloaded_size, success>>
    /\ UNCHANGED <<inputs, fs, idx, attempt, error_details, result, made_dirs, run, first,
                   sleeps, paused, probes, opened, attempted, placed>>

\* Lines 212-229: the response r goes on to the download.
Proceeds(r, disk_free) ==
    /\ ~SkipsAtFinal(r)
    /\ ExpectedSize(r) # LengthMalformed
    /\ ~NoRoom(ExpectedSize(r), disk_free)

\* Line 232
TempPath(path) == path \o ".tmp"

\* Lines 195-234: the response arrives and open(temp_path, 'wb') succeeds.
FetchOpens ==
    /\ pc = "get"
    /\ fetches' = fetches + 1
    /\ \E r \in Servers[remote].gets, disk_free \in DiskFree :
         /\ Proceeds(r, disk_free)
         /\ tight' = Tight(r, disk_free)
         /\ fname' = FinalName(r, fname)
         /\ out_path' = Join(dest_dir, fname')
         /\ expected_size' = ExpectedSize(r)
         /\ fs' = Truncated(TempPath(out_path'), idx)
    /\ opened' = TRUE
    /\ pc' = "stream"
    /\ UNCHANGED <<inputs, idx, attempt, success, brk, current_error_log, counts,
                   error_details, result, made_dirs, run, first, faults, sleeps, paused,
                   probes, skip_path, attempted, placed>>

\* Lines 195-234: the response arrives and open(temp_path, 'wb') raises.
FetchOpenRaises ==
    /\ pc = "get"
    /\ fetches' = fetches + 1
    /\ \E r \in Servers[remote].gets, disk_free \in DiskFree :
         /\ Proceeds(r, disk_free)
         /\ tight' = Tight(r, disk_free)
         /\ fname' = FinalName(r, fname)
         /\ out_path' = Join(dest_dir, fname')
         /\ \E e \in OpenExceptions : Raise(e, out_path')
    /\ UNCHANGED <<inputs, fs, idx, attempt, error_details, result, made_dirs, run, first,
                   sleeps, paused, probes, opened, skip_path, attempted, placed>>

\* Lines 235-237: one more chunk arrives and is written.
WriteChunk ==
    /\ pc = "stream"
    /\ \E b \in Servers[remote].bodies : GetSize(TempPath(out_path)) < b
    /\ fs' = Written(TempPath(out_path))
    /\ UNCHANGED <<inputs, pc, idx, locals, counts, error_details, result, made_dirs, run,
                   first, faults, seen>>

\* Lines 235-237: the connection or the write raises.
StreamRaises ==
    /\ pc = "stream"
    /\ \E e \in WriteExceptions : Raise(e, out_path)
    /\ UNCHANGED <<inputs, fs, idx, attempt, fname, out_path, error_details,
                   result, made_dirs, run, first, seen>>

\* Lines 244-246: the warning of a size that differs from the declared one.
Warning(actual_size) ==
    IF expected_size > 0 /\ actual_size # expected_size
      THEN <<[tag |-> "SizeMismatch"]>>
      ELSE <<>>

\* Lines 238-251: the body ends; the rename, the size check and the success.
Rename ==
    /\ pc = "stream"
    /\ GetSize(TempPath(out_path)) \in Servers[remote].bodies
    /\ fs' = Renamed(TempPath(out_path), out_path)
    /\ current_error_log' = current_error_log \o Warning(fs'[out_path].size)
    /\ total_downloaded_size' = total_downloaded_size + fs'[out_path].size
    /\ success_count' = success_count + 1
    /\ success' = TRUE
    /\ brk' = TRUE
    /\ LeaveTry
    /\ placed' = placed \cup {out_path}
    /\ UNCHANGED <<inputs, idx, attempt, fname, out_path, skip_count, error_count,
                   error_details, result, made_dirs, run, first, faults, sleeps, paused,
                   fetches, probes, opened, tight, skip_path, attempted>>

\* Line 240: os.rename raises.
RenameRaises ==
    /\ pc = "stream"
    /\ \E e \in RenameExceptions : Raise(e, out_path)
    /\ UNCHANGED <<inputs, fs, idx, attempt, fname, out_path, error_details,
                   result, made_dirs, run, first, seen>>

\* Lines 300-308: the block of a request that did not succeed.
ErrorBlock ==
    <<[tag |-> "request", idx |-> idx]>> \o current_error_log
        \o <<[tag |-> "final", retries |-> retry_count], [tag |-> "blank"]>>

\* (mutant) the block is written for every request, 'if not success' dropped.
DetailsOfAll == error_details \o ErrorBlock

\* (mutant) the block of a failed request is put ahead of the earlier ones.
DetailsPrepended == IF success THEN error_details ELSE ErrorBlock \o error_details

\* Lines 299-308: error_details after the request.
Details == IF success THEN error_details ELSE error_details \o ErrorBlock

\* Lines 317-335: the report.
Report(details) ==
    [ error_block |-> details # <<>>,
      details |-> details,
      success |-> success_count,
      skipped |-> skip_count,
      errors |-> error_count,
      total |-> Len(urls),
      bytes |-> total_downloaded_size,
      hint |-> error_count > 0,
      sections |-> (IF details # <<>> THEN <<"error_details">> ELSE <<>>)
                      \o <<"summary">>
                      \o (IF error_count > 0 THEN <<"hint">> ELSE <<>>) ]

\* (mutant) the retry loop runs once more: range(retry_count + 2).
LoopLeftLate == brk \/ attempt > retry_count

\* Lines 145, 163, 251, 272: the retry loop is left by a break or when
\* range(retry_count + 1) is used up.
LoopLeft == brk \/ attempt >= retry_count

\* (mutant) the loop over the URLs ends at the first request that failed.
LastUrlOrFailed == idx = Len(urls) \/ ~success

\* (mutant) the loop over the URLs never sees its end.
LastUrlNever == FALSE

\* Line 138: the loop over the URLs has reached the last one.
LastUrl == idx = Len(urls)

\* What follows the finally block.  Inside the retry loop: the next attempt.
\* Lines 299-312 and 138-143 when the loop is left: the error details of
\* the request, the pause and the head of the loop for the next URL.
\* Lines 299-338 after the last URL: the error details, the report and the
\* return, where the locals cease to exist.
AfterFinally ==
    IF ~LoopLeft
      THEN /\ pc' = "attempt"
           /\ attempt' = attempt + 1
           /\ UNCHANGED <<idx, success, brk, fname, out_path, current_error_log,
                          error_details, result, sleeps, paused, fetches, probes,
                          opened, tight, skip_path>>
      ELSE IF ~LastUrl
      THEN /\ pc' = "attempt"
           /\ error_details' = Details
           /\ paused' = IF delay_between_requests > 0
                          THEN delay_between_requests ELSE 0
           /\ idx' = idx + 1
           /\ success' = FALSE
           /\ current_error_log' = <<>>
           /\ attempt' = 0
           /\ sleeps' = <<>>
           /\ fetches' = 0
           /\ probes' = 0
           /\ UNCHANGED <<brk, fname, out_path, result, opened, tight, skip_path>>
      ELSE /\ pc' = "done"
           /\ error_details' = Details
           /\ result' = Report(error_details')
           /\ attempt' = 0
           /\ success' = FALSE
           /\ brk' = FALSE
           /\ fname' = None
           /\ out_path' = None
           /\ current_error_log' = <<>>
           /\ sleeps' = <<>>
           /\ paused' = 0
           /\ fetches' = 0
           /\ probes' = 0
           /\ opened' = FALSE
           /\ tight' = FALSE
           /\ skip_path' = None
           /\ idx' = idx

\* Lines 290-293: whether the finally block has a temporary file to remove.
Lingering == out_path # None /\ Exists(TempPath(out_path))

\* Lines 290-295: the temporary file of out_path is removed if it exists.
Cleanup ==
    /\ pc = "finally"
    /\ fs' = IF Lingering THEN Removed(TempPath(out_path)) ELSE fs
    /\ AfterFinally
    /\ UNCHANGED <<inputs, expected_size, counts, made_dirs, run, first, faults, attempted,
                   placed>>

\* Lines 294-297: os.remove raises and the exception is swallowed.
CleanupFails ==
    /\ pc = "finally"
    /\ Lingering
    /\ faults < MaxFaults
    /\ faults' = faults + 1
    /\ AfterFinally
    /\ UNCHANGED <<inputs, fs, expected_size, counts, made_dirs, run, first, attempted,
                   placed>>

Next ==
    \/ Begin
    \/ StartAttempt
    \/ ProbeFails
    \/ ProbeAnswers
    \/ FetchRaises
    \/ FetchStops
    \/ FetchOpens
    \/ FetchOpenRaises
    \/ WriteChunk
    \/ StreamRaises
    \/ Rename
    \/ RenameRaises
    \/ Cleanup
    \/ CleanupFails

Spec == Init /\ [][Next]_vars

\* The engine started on an empty destination with skip_existing set (its
\* later requests still meet the files of its earlier ones), when every call
\* it makes returns or raises: a step that can be taken is taken.
InitFair == Init /\ fs = <<>> /\ skip_existing

SpecFair == InitFair /\ [][Next]_vars /\ WF_vars(Next)

-----------------------------------------------------------------------------
(* read_urls and convert_civitai_url, lines 19-55.                         *)

\* The pieces of text a line is made of: the three pieces of the two URL
\* forms, the query parameter, two digits and a character that is none of
\* these.
Site == "https://civitai.com/"
Models == "models/"
Api == "api/download/"
VersionParam == "modelVersionId="
Digits == {"1", "7"}
Pieces == {Site, Models, Api, VersionParam, "x"} \cup Digits

\* The lines of at most MaxText pieces.
Texts == UNION { [1 .. n -> Pieces] : n \in 0 .. MaxText }

\* (\d+) at position k: the longest run of digits that starts there.
DigitRun(s, k) ==
    LET ends == { e \in k .. Len(s) : \A m \in k .. e : s[m] \in Digits }
    IN  SubSeq(s, k, CHOOSE e \in ends : \A f \in ends : f <= e)

\* Line 25: the positions after position i where 'modelVersionId=(\d+)' can
\* match once 'https://civitai\.com/models/\d+' has matched at i.
ParamAfter(s, i) ==
    { j \in i + 3 .. Len(s) - 1 : s[j] = VersionParam /\ s[j + 1] \in Digits }

\* Line 25: the pattern matches at position i.
MatchAt(s, i) ==
    /\ i + 4 <= Len(s)
    /\ s[i] = Site /\ s[i + 1] = Models /\ s[i + 2] \in Digits
    /\ ParamAfter(s, i) # {}

\* Line 26: re.search, the leftmost position the pattern matches at, 0 if
\* there is none.
Search(s) ==
    LET at == { i \in 1 .. Len(s) : MatchAt(s, i) }
    IN  IF at = {} THEN 0 ELSE CHOOSE i \in at : \A k \in at : i <= k

\* Line 29: match.group(1); '.*?' stops at the first parameter it can.
Group1(s) ==
    LET after == ParamAfter(s, Search(s))
    IN  DigitRun(s, 1 + CHOOSE j \in after : \A k \in after : j <= k)

\* (mutant) the function has no 'return url' for a line that does not match.
convert_or_nothing(url) ==
    IF Search(url) # 0 THEN <<Site, Api, Models>> \o Group1(url) ELSE <<>>

\* Lines 19-35.
convert_civitai_url(url) ==
    IF Search(url) # 0 THEN <<Site, Api, Models>> \o Group1(url) ELSE url

\* One line is entered.
InitRead ==
    /\ original_urls \in { <<u>> : u \in Texts }
    /\ urls = <<>>
    /\ dest_dir = "d"
    /\ skip_existing = TRUE
    /\ retry_count = 0
    /\ delay_between_requests = 1
    /\ fs = <<>>
    /\ remote = "any"
    /\ run = 1
    /\ first = None
    /\ Fresh

\* Lines 49-55, called at line 96: read_urls converts every line.
ReadUrls ==
    /\ pc = "begin" /\ urls = <<>> /\ original_urls # <<>>
    /\ urls' = [i \in DOMAIN original_urls |->
                    convert_civitai_url(original_urls[i])]
    /\ UNCHANGED <<original_urls, dest_dir, skip_existing, retry_count,
                   delay_between_requests, remote, fs, pc, idx, locals, counts,
                   error_details, result, made_dirs, run, first, faults, seen>>

SpecRead == InitRead /\ [][ReadUrls]_vars

-----------------------------------------------------------------------------
(* The engine against servers that name their files by paths.              *)

InitStray ==
    /\ urls \in Batches
    /\ original_urls = urls
    /\ dest_dir \in {"", "d"}
    /\ skip_existing \in BOOLEAN
    /\ retry_count \in 0 .. MaxRetry
    /\ delay_between_requests \in 1 .. MaxDelay
    /\ fs \in InitialFs
    /\ remote = "stray"
    /\ run = 1
    /\ first = None
    /\ Fresh

SpecStray == InitStray /\ [][Next]_vars

-----------------------------------------------------------------------------
(* The engine against servers that answer every request the same way.      *)

InitSteady ==
    /\ urls \in Batches
    /\ original_urls = urls
    /\ dest_dir \in {"", "d"}
    /\ skip_existing \in BOOLEAN
    /\ retry_count \in 0 .. MaxRetry
    /\ delay_between_requests \in 1 .. MaxDelay
    /\ fs \in InitialFs
    /\ remote \in {"bare", "naming", "probing", "renaming"}
    /\ run = 1
    /\ first = None
    /\ Fresh

SpecSteady == InitSteady /\ [][Next]_vars

-----------------------------------------------------------------------------
(* The engine run twice over the same inputs, lines 379-391.               *)

\* The kinds of servers that answer every request the same way.
SteadyRemotes == {"bare", "naming", "hollow"}

\* The runs with a destination given and skip_existing set.
InitTwice ==
    /\ urls \in Batches
    /\ original_urls = urls
    /\ dest_dir = "d"
    /\ skip_existing = TRUE
    /\ retry_count \in 0 .. MaxRetry
    /\ delay_between_requests \in 1 .. MaxDelay
    /\ fs \in InitialFs
    /\ remote \in SteadyRemotes
    /\ run = 1
    /\ first = None
    /\ Fresh

\* Lines 379-391: the button is clicked again with the same inputs once
\* the first run has returned.  The files the first run left are prior
\* files of the second run; first keeps the report of the first run.
Rerun ==
    /\ pc = "done"
    /\ run = 1
    /\ run' = 2
    /\ first' = result
    /\ fs' = [p \in DOMAIN fs |-> [fs[p] EXCEPT !.by = 0]]
    /\ pc' = "begin"
    /\ idx' = 0
    /\ result' = None
    /\ success_count' = 0
    /\ skip_count' = 0
    /\ error_count' = 0
    /\ total_downloaded_size' = 0
    /\ error_details' = <<>>
    /\ attempted' = {}
    /\ placed' = {}
    /\ made_dirs' = {}
    /\ UNCHANGED <<inputs, locals, faults, sleeps, paused, fetches, probes,
                   opened, tight, skip_path>>

NextTwice == Next \/ Rerun

SpecTwice == InitTwice /\ [][NextTwice]_vars

-----------------------------------------------------------------------------
(* Properties.                                                             *)

\* The run got past the pre-condition returns and is processing requests.
Running == pc \in {"attempt", "head", "get", "stream", "finally"}

\* The request idx has been counted: the try body was left and the retry
\* loop will not be entered again.
Finalized == pc = "finally" /\ LoopLeft

\* C1: every request is counted exactly once, as a success, a skip or an
\* error: while request idx is in progress the three counters add up to
\* idx - 1, once it is finalized they add up to idx, and when batch_download
\* returns its report they add up to the number of URLs.
C1_CountedOnce ==
    /\ Running =>
         success_count + skip_count + error_count
            = IF Finalized THEN idx ELSE idx - 1
    /\ (pc = "done" /\ idx > 0) =>
         /\ result.success + result.skipped + result.errors = Len(urls)
         /\ result.success = success_count
         /\ result.skipped = skip_count
         /\ result.errors = error_count

\* C1, witness: a batch of two ends with one request failed after a retry
\* and the other one counted as a success.
C1_Witness ==
    /\ pc = "done" /\ idx = 2 /\ retry_count > 0
    /\ error_count = 1 /\ success_count = 1 /\ faults = 2

\* The paths a request's file belongs at: the paths of the files the run has
\* renamed into place, and the path the streaming request will rename to.
PermanentPaths == placed \cup (IF pc = "stream" THEN {out_path} ELSE {})

\* C2: atomicity: in every state a request's permanent path is absent or
\* holds a file whose writer finished; a file still being streamed is never
\* at a permanent path.
C2_Atomic == \A p \in PermanentPaths : Exists(p) => fs[p].done

\* C3: temporary-file cleanup: when the next attempt or the next request
\* starts there is no file at '<out_path>.tmp' of the attempt just ended, and
\* when batch_download returns no file the run opened is left unfinished.
C3_TempFilesCleaned ==
    /\ (pc = "attempt" /\ out_path # None) => ~Exists(TempPath(out_path))
    /\ pc = "done" => \A p \in DOMAIN fs : fs[p].by > 0 => fs[p].done

\* C4: error isolation: whatever happened to the requests before it, every
\* request is attempted: the requests before the current one were all
\* attempted, the current one is once its try body runs, and batch_download
\* returns its report only after the last URL, with all of them attempted.
C4_ErrorIsolation ==
    /\ Running =>
         /\ 1 .. idx - 1 \subseteq attempted
         /\ pc # "attempt" => idx \in attempted
    /\ (pc = "done" /\ idx > 0) =>
         /\ idx = Len(urls)
         /\ attempted = 1 .. Len(urls)

\* C4, witness: a batch of two has returned, its first request failed and
\* its second request was attempted.
C4_Witness ==
    /\ pc = "done" /\ idx = 2
    /\ error_details # <<>> /\ error_details[1].idx = 1
    /\ 2 \in attempted

\* The log lines of the clauses that retry, and of the retry itself.
RetryableTags == {"Timeout", "ConnectionError", "HTTPError", "RequestException",
                  "OSError", "Exception", "retry"}

\* Every failure of the request so far was a retryable one.
OnlyRetryable ==
    /\ current_error_log # <<>>
    /\ \A i \in 1 .. Len(current_error_log) :
         current_error_log[i].tag \in RetryableTags

\* C5: bounded retries: a request makes at most retry_count + 1 fetches, one
\* per attempt; when every attempt failed with a retryable error it made
\* exactly retry_count + 1 and is counted as one error; and an attempt only
\* starts or runs for a request that is not finalized.
C5_BoundedRetries ==
    /\ Running =>
         /\ attempt <= retry_count
         /\ fetches <= attempt + 1
         /\ fetches <= retry_count + 1
    /\ (Finalized /\ ~success /\ OnlyRetryable) =>
         /\ fetches = retry_count + 1
         /\ attempt = retry_count
         /\ success_count + skip_count + error_count = idx
    /\ pc \in {"attempt", "head", "get", "stream"} =>
         /\ ~success
         /\ success_count + skip_count + error_count = idx - 1

\* C5, witness: with one retry allowed both attempts of a request failed
\* with a retryable error.
C5_Witness ==
    /\ Finalized /\ ~success /\ OnlyRetryable
    /\ retry_count = 1 /\ fetches = 2 /\ error_count = 1

\* C6: exponential backoff: the first attempt of a request is preceded by
\* no sleep, every later attempt by one; the first sleep of a request lasts
\* delay_between_requests and each further one twice the one before it, so
\* the sleep before attempt k (counted from 1) is the delay times 2^(k-2).
C6_Backoff ==
    /\ pc \in {"head", "get", "stream", "finally"} => Len(sleeps) = attempt
    /\ pc = "attempt" => Len(sleeps) = IF attempt = 0 THEN 0 ELSE attempt - 1
    /\ \A k \in 1 .. Len(sleeps) :
         sleeps[k] = IF k = 1 THEN delay_between_requests ELSE 2 * sleeps[k - 1]

\* C6, witness: the second request of a batch slept the delay and then
\* twice the delay before its second and third attempts.
C6_Witness ==
    /\ idx = 2 /\ attempt = 2 /\ pc = "get"
    /\ sleeps = <<delay_between_requests, 2 * delay_between_requests>>

\* The log lines of the clauses that end the request without a retry.
FatalTags == {"FileNotFoundError", "PermissionError", "NoSpace"}

\* The line the attempt that just ended logged; none if it logged nothing.
LastLine ==
    IF current_error_log = <<>> THEN [tag |-> "none"]
    ELSE current_error_log[Len(current_error_log)]

\* C7: non-retryable errors: an attempt that raised FileNotFoundError,
\* PermissionError or a disk-full OSError ends with the request a counted
\* failure and the retry loop left, whatever retries remain; no attempt
\* starts or runs for a request whose log holds such an error; and the line
\* of a PermissionError carries the path the request was writing.
C7_FatalErrors ==
    /\ (pc = "finally" /\ LastLine.tag \in FatalTags) =>
         /\ ~success /\ brk /\ Finalized
         /\ success_count + skip_count + error_count = idx
         /\ Len(sleeps) = attempt
         /\ LastLine.tag = "PermissionError" => LastLine.path = out_path
    /\ pc \in {"attempt", "head", "get", "stream"} =>
         \A i \in 1 .. Len(current_error_log) :
            current_error_log[i].tag \notin FatalTags

\* C7, witness: the first attempt of a request with retries left raised a
\* PermissionError and the request is a counted failure.
C7_Witness ==
    /\ pc = "finally" /\ LastLine.tag = "PermissionError"
    /\ attempt = 0 /\ retry_count > 0 /\ error_count = 1

\* The attempt ended knowing the declared size exceeds the free space: it
\* was not skipped at the final name before the space check.
SpaceChecked == tight /\ skip_path = None

\* What C8 promises of such an attempt: a counted failure, the retry loop
\* left and the temporary file never opened.
FailedForSpace ==
    /\ ~success /\ brk /\ Finalized /\ ~opened
    /\ LastLine.tag = "NoSpaceAhead"
    /\ success_count + skip_count + error_count = idx

\* C8 as stated: whenever the response declares more than the known free
\* space, the request is a counted failure without the temporary file opened
\* and without a retry.
C8_Stated == (pc = "finally" /\ tight) => FailedForSpace

\* C8, amended: the same, unless the existing-file check at the final name,
\* which comes before the space check, has skipped the request.
C8_NoSpaceAhead == (pc \in {"stream", "finally"} /\ SpaceChecked) => FailedForSpace

\* C8, witness: with retries left, a request failed for space.
C8_Witness ==
    /\ pc = "finally" /\ SpaceChecked /\ attempt = 0 /\ retry_count > 0
    /\ error_count = 1 /\ ~opened

\* C9: a zero-byte file is never an existing one: a request is skipped only
\* with skip_existing set and a file of size > 0 at the path of the check;
\* an attempt goes on to the probe or the fetch only if no such file is at
\* its path; and a success that was not a skip leaves this request's
\* finished file at out_path.
C9_ZeroByteNotExisting ==
    /\ (pc = "finally" /\ skip_path # None) =>
         /\ success /\ skip_existing
         /\ Exists(skip_path) /\ GetSize(skip_path) > 0
    /\ pc \in {"head", "get"} =>
         ~(skip_existing /\ Exists(out_path) /\ GetSize(out_path) > 0)
    /\ (pc = "finally" /\ success /\ skip_path = None) =>
         /\ Exists(out_path)
         /\ fs[out_path].by = idx /\ fs[out_path].done

\* C9, witness: with skip_existing set and a zero-byte file at its path, a
\* request has streamed its whole body and is about to rename over the file.
C9_Witness ==
    /\ pc = "stream" /\ skip_existing
    /\ Exists(out_path) /\ GetSize(out_path) = 0 /\ fs[out_path].by = 0
    /\ GetSize(TempPath(out_path)) = MaxBody

\* No server sends an empty body.
NoEmptyBody == 0 \notin Servers[remote].bodies

\* C10: idempotence: when the engine has run twice over the same batch and
\* destination with skip_existing set and servers that answer every request
\* the same way, the second run reports every request skipped, none
\* downloaded, none failed and no byte transferred.  Stated for the runs the
\* claim is most plainly about: the environment caused no failure in either
\* run (no exception, no lack of space) and no body is empty.
C10_Idempotent ==
    (/\ pc = "done" /\ run = 2 /\ idx > 0
     /\ skip_existing /\ NoEmptyBody /\ faults = 0) =>
        /\ result.skipped = Len(urls)
        /\ result.success = 0
        /\ result.errors = 0
        /\ result.bytes = 0

\* The lines of a report's error details hold a size-mismatch warning.
HasWarning(details) ==
    \E i \in 1 .. Len(details) : details[i].tag = "SizeMismatch"

\* C11: size-mismatch warning: a request whose written size differs from the
\* declared one is a success (counted, its bytes added) whose warning is
\* attached to its outcome: once the request is left, the warning is among
\* the error details that go into the report.
C11_WarningReported ==
    [][(pc = "finally" /\ success /\ LastLine.tag = "SizeMismatch") =>
          /\ success_count' = success_count /\ success_count >= 1
          /\ HasWarning(error_details')]_vars

\* Lines 301, 318-320: the request numbers of the per-request blocks of the
\* error details, in the order the blocks appear.
BlockIndexes(details) ==
    LET heads == SelectSeq(details, LAMBDA e : e.tag = "request")
    IN  [i \in 1 .. Len(heads) |-> heads[i].idx]

\* A sequence of numbers is strictly increasing.
Increasing(s) == \A i, j \in 1 .. Len(s) : i < j => s[i] < s[j]

\* C12: strict sequential order: no request after the current one has been
\* attempted or has written a file, every request before the current one is
\* finalized (counted, and its block written if it failed), and the blocks
\* of the error details, while they are collected and in the report, appear
\* in increasing request index.
C12_Sequential ==
    /\ attempted \subseteq 1 .. idx
    /\ \A p \in DOMAIN fs : fs[p].by <= idx
    /\ Running =>
         /\ success_count + skip_count + error_count >= idx - 1
         /\ \A i \in 1 .. Len(BlockIndexes(error_details)) :
              BlockIndexes(error_details)[i] < idx
    /\ Increasing(BlockIndexes(error_details))
    /\ (pc = "done" /\ idx > 0) => Increasing(BlockIndexes(result.details))

\* C12, witness: both requests of a batch of two failed and the report has
\* their two blocks, the first request's first.
C12_Witness ==
    /\ pc = "done" /\ idx = 2
    /\ BlockIndexes(result.details) = <<1, 2>>
    /\ attempted = {1, 2} /\ error_count = 2

\* Lines 314-338: batch_download has returned the report with its summary
\* block.
Reported ==
    /\ pc = "done" /\ idx > 0
    /\ result.total = Len(urls)
    /\ result.success + result.skipped + result.errors = result.total

Aborted == pc = "done" /\ idx = 0

\* C14: pre-condition errors abort before any side effect: with no URL or no
\* destination batch_download returns its message (it raises nothing), and
\* it has sent no HEAD or GET request, attempted no request, called
\* os.makedirs for no directory and written, renamed or removed no file.
C14_AbortsClean ==
    /\ (pc = "done" /\ ~PreconditionsMet) =>
          /\ idx = 0
          /\ result = (IF Len(urls) = 0 THEN "no_urls" ELSE "no_dest")
    /\ Aborted =>
          /\ ~PreconditionsMet
          /\ probes = 0 /\ fetches = 0 /\ attempted = {} /\ placed = {}
          /\ made_dirs = {}
          /\ fs \in InitialFs
          /\ success_count + skip_count + error_count = 0

\* C14, witness: a run with a destination but no URL has returned, its
\* destination holding the file it held before.
C14_Witness ==
    /\ Aborted /\ Len(urls) = 0 /\ dest_dir # "" /\ fs # <<>>

\* C15: error reporting is consistent with the counts: the report has the
\* error-details block exactly when its error count is positive, the block
\* is ahead of the summary, it has one per-request entry for each failed
\* request and none for any other (as many entries as errors, each for a
\* different request), and the closing hint is there exactly when the error
\* count is positive.
C15_ErrorReport ==
    (pc = "done" /\ idx > 0) =>
        /\ result.error_block <=> result.errors > 0
        /\ result.hint <=> result.errors > 0
        /\ result.sections = IF result.errors > 0
                               THEN <<"error_details", "summary", "hint">>
                               ELSE <<"summary">>
        /\ Len(BlockIndexes(result.details)) = result.errors
        /\ Increasing(BlockIndexes(result.details))
        /\ result.errors = error_count

\* C15, witness: a report with one failed request and one that was not:
\* the block and the hint are there, with one entry.
C15_Witness ==
    /\ pc = "done" /\ idx = 2
    /\ result.errors = 1 /\ result.success + result.skipped = 1
    /\ result.error_block /\ result.hint
    /\ Len(BlockIndexes(result.details)) = 1

\* C16: every file the engine writes, temporary or final, lies directly
\* inside the destination directory, whatever name a server declares: the
\* file being streamed and every file the run wrote or renamed have dest_dir
\* as their directory.
C16_InsideDest ==
    /\ \A p \in DOMAIN fs : fs[p].by > 0 => Dirname(p) = dest_dir
    /\ pc = "stream" => Dirname(TempPath(out_path)) = dest_dir

\* C17: URL normalization is total and idempotent: read_urls has a result
\* for every line, converting the result once more returns it unchanged, and
\* a line the pattern does not match is returned unchanged.
C17_Normalization ==
    urls # <<>> =>
       \A i \in DOMAIN urls :
          /\ urls[i] \in Seq(Pieces)
          /\ convert_civitai_url(urls[i]) = urls[i]
          /\ Search(original_urls[i]) = 0 => urls[i] = original_urls[i]
          /\ Search(original_urls[i]) # 0 =>
               /\ Search(urls[i]) = 0
               /\ SubSeq(urls[i], 1, 3) = <<Site, Api, Models>>

\* C17, witness: a model page with a name after the model number was
\* converted to the download URL of its version.
C17_Witness ==
    /\ urls = << <<Site, Api, Models, "7">> >>
    /\ original_urls[1] = <<Site, Models, "1", "x", VersionParam, "7">>

\* Lines 153-154, 172-177, 199-200: the name a request's file is to get from
\* servers that answer every request the same way: the name the GET response
\* declares, else the name the HEAD response declares, else the name derived
\* from the URL.
ResolvedName ==
    LET server == Servers[remote]
        fetched == get_filename_from_cd((CHOOSE r \in server.gets : TRUE).cd)
        probed == IF server.heads = {} THEN None
                  ELSE get_filename_from_cd(CHOOSE cd \in server.heads : TRUE)
    IN  IF fetched # None THEN fetched
        ELSE IF probed # None THEN probed
        ELSE UrlName(urls[idx], idx)

\* C18: write-path invariant: while a request streams its body, out_path is
\* dest_dir joined with the last resolved candidate (the name of the GET
\* response, else the name of the HEAD response, else the URL-derived name or
\* file_<index>), the open temporary file is out_path with '.tmp' appended,
\* and when the stream has been renamed the file is at that same path.
C18_WritePath ==
    /\ pc = "stream" =>
         /\ fname = ResolvedName
         /\ out_path = Join(dest_dir, ResolvedName)
         /\ Exists(TempPath(out_path))
         /\ fs[TempPath(out_path)].by = idx
    /\ (pc = "finally" /\ opened /\ success) =>
         /\ out_path = Join(dest_dir, ResolvedName)
         /\ Exists(out_path)
         /\ fs[out_path].by = idx /\ fs[out_path].done
         /\ out_path \in placed

\* C18, witness: a stream was renamed to the name the HEAD response
\* declared, which is not the name of the URL, the GET response naming none.
C18_Witness ==
    /\ pc = "finally" /\ opened /\ success
    /\ remote = "probing"
    /\ fname = "a.bin" /\ UrlName(urls[idx], idx) # "a.bin"
    /\ Exists(Join(dest_dir, "a.bin"))

\* C19: per-request step order: the metadata probe is made once per request,
\* ahead of the retry loop: however many fetch attempts a request makes, it
\* has sent at most one HEAD request.
C19_ProbeOnce == probes <= 1

\* C20: a completed download is never damaged by a later request: a file the
\* run has renamed into place stays there, whole, whatever the requests
\* after it do (a request that resolves to the same path replaces it by a
\* rename, which leaves a whole file there too).
C20_CompletedKept ==
    faults = 0 => \A p \in placed : Exists(p) /\ fs[p].done

====
